---- MODULE Spec2Model ----
(***************************************************************************)
(* Retrieval core of the shopping assistant (ai_agent/rag_logic.py):       *)
(* keyword indexing, relevance scoring and criteria filtering of product   *)
(* records.  Text is modelled as sequences of one-character strings, a     *)
(* Python value as a tagged record (str / None / int), a product as a      *)
(* function from the keys it has to such values.                           *)
(***************************************************************************)
EXTENDS Integers, Sequences, FiniteSets, TLC

(* ----------------------------- bounds --------------------------------- *)
\* longest record collection drawn in Init / grown by list mutations
MaxRecords == 2
\* largest result bound top_k passed to retrieve_relevant_products
MaxK == 2
\* longest collection a SimpleRAG is built over before its list is changed
MaxHeld == 1
\* most entries of the session's query history
MaxHistory == 1

(* ------------------------- Python values ------------------------------ *)
Str(s) == [t |-> "str", v |-> s]
None == [t |-> "None"]
PyInt(n) == [t |-> "int", n |-> n]

\* outcome of a call: a returned list, or a raised exception
List(v) == [t |-> "list", v |-> v]
Raise(e) == [t |-> "raise", exc |-> e]
NoResult == [t |-> "none"]

\* dict.get(key, default)
Get(d, key, default) == IF key \in DOMAIN d THEN d[key] ELSE default

(* ----------------------------- characters ----------------------------- *)
Digits == {"0", "1", "2", "3", "4", "5", "6", "7", "8", "9"}
UpperLetters ==
    {"A", "B", "C", "D", "E", "F", "G", "H", "I", "J", "K", "L", "M",
     "N", "O", "P", "Q", "R", "S", "T", "U", "V", "W", "X", "Y", "Z"}
LowerLetters ==
    {"a", "b", "c", "d", "e", "f", "g", "h", "i", "j", "k", "l", "m",
     "n", "o", "p", "q", "r", "s", "t", "u", "v", "w", "x", "y", "z"}

\* str.lower() on one character
LowerChar(c) ==
    CASE c = "A" -> "a" [] c = "B" -> "b" [] c = "C" -> "c" [] c = "D" -> "d"
      [] c = "E" -> "e" [] c = "F" -> "f" [] c = "G" -> "g" [] c = "H" -> "h"
      [] c = "I" -> "i" [] c = "J" -> "j" [] c = "K" -> "k" [] c = "L" -> "l"
      [] c = "M" -> "m" [] c = "N" -> "n" [] c = "O" -> "o" [] c = "P" -> "p"
      [] c = "Q" -> "q" [] c = "R" -> "r" [] c = "S" -> "s" [] c = "T" -> "t"
      [] c = "U" -> "u" [] c = "V" -> "v" [] c = "W" -> "w" [] c = "X" -> "x"
      [] c = "Y" -> "y" [] c = "Z" -> "z" [] OTHER -> c

\* str.lower()
Lower(s) == [i \in 1..Len(s) |-> LowerChar(s[i])]

\* the regular expression class \w
IsWordChar(c) == c \in Digits \cup UpperLetters \cup LowerLetters \cup {"_"}

DigitVal(c) ==
    CASE c = "0" -> 0 [] c = "1" -> 1 [] c = "2" -> 2 [] c = "3" -> 3
      [] c = "4" -> 4 [] c = "5" -> 5 [] c = "6" -> 6 [] c = "7" -> 7
      [] c = "8" -> 8 [] c = "9" -> 9

(* ------------------------------ tokenizer ----------------------------- *)
RECURSIVE FindAllWords(_, _, _, _)
\* re.findall(r'\b\w+\b', s): the maximal runs of word characters of s
FindAllWords(s, i, cur, acc) ==
    IF i > Len(s)
    THEN IF cur = <<>> THEN acc ELSE Append(acc, cur)
    ELSE IF IsWordChar(s[i])
         THEN FindAllWords(s, i + 1, Append(cur, s[i]), acc)
         ELSE FindAllWords(s, i + 1, <<>>,
                           IF cur = <<>> THEN acc ELSE Append(acc, cur))

Words(s) == FindAllWords(s, 1, <<>>, <<>>)

(* --------------------------- index builder ---------------------------- *)
TextFieldNames == <<"name", "description", "price", "rating", "availability">>

\* text_fields of extract_keywords: product.get(f, '') for the five fields
TextFields(product) ==
    [j \in 1..Len(TextFieldNames) |-> Get(product, TextFieldNames[j], Str(<<>>))]

\* truthiness of a value, as filter(None, ...) tests it
Truthy(x) == x.t = "str" /\ x.v # <<>>

RECURSIVE JoinSpace(_)
\* ' '.join(parts)
JoinSpace(parts) ==
    IF parts = <<>> THEN <<>>
    ELSE IF Len(parts) = 1 THEN parts[1].v
    ELSE parts[1].v \o <<" ">> \o JoinSpace(Tail(parts))

\* combined_text of extract_keywords
CombinedText(product) == Lower(JoinSpace(SelectSeq(TextFields(product), Truthy)))

\* the word filter of extract_keywords: len(word) > 2
KeepWordShort(word) == Len(word) >= 2
KeepWord(word) == Len(word) > 2

EmptyIndex == [w \in {} |-> <<>>]

\* keyword_index[word].append(i), creating the postings list when new
AppendPostingTwice(index, word, i) ==
    IF word \in DOMAIN index
    THEN [index EXCEPT ![word] = @ \o <<i, i>>]
    ELSE index @@ (word :> <<i, i>>)
AppendPosting(index, word, i) ==
    IF word \in DOMAIN index
    THEN [index EXCEPT ![word] = Append(@, i)]
    ELSE index @@ (word :> <<i>>)

RECURSIVE IndexWords(_, _, _)
\* the inner loop of extract_keywords over the words of record i
IndexWords(index, words, i) ==
    IF words = <<>> THEN index
    ELSE IndexWords(IF KeepWord(Head(words))
                    THEN AppendPosting(index, Head(words), i)
                    ELSE index,
                    Tail(words), i)

RECURSIVE IndexProducts(_, _, _)
\* the outer loop of extract_keywords; i is the 0-based record position
IndexProducts(index, prods, i) ==
    IF i >= Len(prods) THEN index
    ELSE IndexProducts(IndexWords(index, Words(CombinedText(prods[i + 1])), i),
                       prods, i + 1)

\* SimpleRAG.extract_keywords
ExtractKeywords(prods) == IndexProducts(EmptyIndex, prods, 0)

(* ------------------------------ scorer -------------------------------- *)
\* A Counter is kept as the sequence of its (idx, n) entries in insertion
\* order, which is the order most_common keeps among equal counts.
CounterHas(counter, idx) == \E j \in DOMAIN counter : counter[j].idx = idx

\* product_scores[product_idx] += 1
CounterSetOne(counter, idx) ==
    IF CounterHas(counter, idx)
    THEN counter
    ELSE Append(counter, [idx |-> idx, n |-> 1])
CounterInc(counter, idx) ==
    IF CounterHas(counter, idx)
    THEN [j \in DOMAIN counter |->
            IF counter[j].idx = idx
            THEN [counter[j] EXCEPT !.n = @ + 1]
            ELSE counter[j]]
    ELSE Append(counter, [idx |-> idx, n |-> 1])

RECURSIVE ScorePostings(_, _)
\* for product_idx in self.keywords[word]
ScorePostings(counter, postings) ==
    IF postings = <<>> THEN counter
    ELSE ScorePostings(CounterInc(counter, Head(postings)), Tail(postings))

RECURSIVE ScoreWords(_, _, _)
\* for word in query_words: if word in self.keywords
ScoreWords(counter, words, index) ==
    IF words = <<>> THEN counter
    ELSE ScoreWords(IF Head(words) \in DOMAIN index
                    THEN ScorePostings(counter, index[Head(words)])
                    ELSE counter,
                    Tail(words), index)

\* position of the first entry with the largest count
LastMax(counter) ==
    CHOOSE j \in DOMAIN counter :
        /\ \A k \in DOMAIN counter : counter[k].n <= counter[j].n
        /\ \A k \in (j + 1)..Len(counter) : counter[k].n < counter[j].n
FirstMax(counter) ==
    CHOOSE j \in DOMAIN counter :
        /\ \A k \in DOMAIN counter : counter[k].n <= counter[j].n
        /\ \A k \in 1..(j - 1) : counter[k].n < counter[j].n

RemoveAt(s, j) == [k \in 1..(Len(s) - 1) |-> IF k < j THEN s[k] ELSE s[k + 1]]

RECURSIVE MostCommon(_, _)
\* Counter.most_common(k): entries by descending count, equal counts in
\* insertion order, the first k of them (none when k <= 0)
MostCommon(counter, k) ==
    IF k <= 0 \/ counter = <<>> THEN <<>>
    ELSE LET j == FirstMax(counter)
         IN  <<counter[j]>> \o MostCommon(RemoveAt(counter, j), k - 1)

\* s[:k] for k >= 0
SliceAll(s, k) == s
SliceLast(s, k) ==
    IF k >= Len(s) THEN s ELSE SubSeq(s, Len(s) - k + 1, Len(s))
Slice(s, k) == IF k >= Len(s) THEN s ELSE SubSeq(s, 1, k)

\* a dict with key relevance_score set to score
WithScore(product, score) ==
    [f \in DOMAIN product \cup {"relevance_score"} |->
        IF f = "relevance_score" THEN PyInt(score) ELSE product[f]]

\* product = self.products[idx].copy(); product['relevance_score'] = score
\* gives the record appended to top_products and the collection afterwards
AnnotateInPlace(prods, idx, score) ==
    [prods   |-> [prods EXCEPT ![idx + 1] = WithScore(@, score)],
     product |-> WithScore(prods[idx + 1], score)]
AnnotateCopy(prods, idx, score) ==
    [prods   |-> prods,
     product |-> WithScore(prods[idx + 1], score)]

RECURSIVE BuildTop(_, _, _)
\* the loop over most_common(top_k); self.products[idx] raises IndexError
\* when idx is not a position of the collection
BuildTop(prods, selected, top) ==
    IF selected = <<>> THEN [t |-> "ok", prods |-> prods, top |-> top]
    ELSE IF Head(selected).idx >= Len(prods)
         THEN [t |-> "raise", prods |-> prods, top |-> top]
         ELSE LET a == AnnotateCopy(prods, Head(selected).idx, Head(selected).n)
              IN  BuildTop(a.prods, Tail(selected), Append(top, a.product))

\* SimpleRAG.retrieve_relevant_products: the outcome, the collection
\* afterwards and the (position, score) pairs the loop went through
RetrieveRelevantProducts(prods, index, query, top_k) ==
    LET query_words    == Words(Lower(query))
        product_scores == ScoreWords(<<>>, query_words, index)
        selected       == MostCommon(product_scores, top_k)
        b              == BuildTop(prods, selected, <<>>)
    IN  [prods    |-> b.prods,
         selected |-> selected,
         result   |-> IF b.t = "raise" THEN Raise("IndexError")
                      ELSE IF b.top = <<>> THEN List(Slice(b.prods, top_k))
                      ELSE List(b.top)]

(* ------------------------------ filter -------------------------------- *)
\* str.replace(',', '')
RemoveCommas(s) == SelectSeq(s, LAMBDA c : c # ",")

RECURSIVE RunEnd(_, _, _)
\* the end of the longest run of characters of class cls starting at i
\* (i - 1 when s[i] is not in cls)
RunEnd(s, i, cls) ==
    IF i <= Len(s) /\ s[i] \in cls THEN RunEnd(s, i + 1, cls) ELSE i - 1

\* re.search(first+ \.? \d*, s): the leftmost match, greedy; first is the
\* class of the leading run ([\d,] for a price, \d for a rating)
SearchNumber(s, first) ==
    IF \E i \in 1..Len(s) : s[i] \in first
    THEN LET b  == CHOOSE i \in 1..Len(s) :
                       s[i] \in first /\ \A k \in 1..(i - 1) : s[k] \notin first
             e  == RunEnd(s, b, first)
             dot == e + 1 <= Len(s) /\ s[e + 1] = "."
             fe == IF dot THEN RunEnd(s, e + 2, Digits) ELSE e
         IN  [found |-> TRUE,
              whole |-> SubSeq(s, b, e),
              frac  |-> IF dot THEN SubSeq(s, e + 2, fe) ELSE <<>>]
    ELSE [found |-> FALSE]

RECURSIVE DigitsValue(_)
DigitsValue(ds) ==
    IF ds = <<>> THEN 0 ELSE 10 * DigitsValue(SubSeq(ds, 1, Len(ds) - 1))
                             + DigitVal(ds[Len(ds)])

RECURSIVE Pow10(_)
Pow10(n) == IF n = 0 THEN 1 ELSE 10 * Pow10(n - 1)

\* float(match.group()) as the exact decimal num / 10^scale
Float(match) ==
    [num   |-> DigitsValue(match.whole \o match.frac),
     scale |-> Len(match.frac)]

\* x < n and x > n for a parsed decimal x and an integer bound n
Less(x, n) == x.num < n * Pow10(x.scale)
Greater(x, n) == x.num > n * Pow10(x.scale)

\* the two price comparisons of filter_by_criteria
PriceInBoundsFlipped(price, criteria) ==
    /\ ~ ("min_price" \in DOMAIN criteria /\ Greater(price, criteria["min_price"]))
    /\ ~ ("max_price" \in DOMAIN criteria /\ Greater(price, criteria["max_price"]))
PriceInBounds(price, criteria) ==
    /\ ~ ("min_price" \in DOMAIN criteria /\ Less(price, criteria["min_price"]))
    /\ ~ ("max_price" \in DOMAIN criteria /\ Greater(price, criteria["max_price"]))

Keep(b) == [t |-> "ok", keep |-> b]

\* the price block: what it leaves in matches_criteria, or the exception
\* None.replace raises
PriceCheck(product, criteria) ==
    IF "min_price" \in DOMAIN criteria \/ "max_price" \in DOMAIN criteria
    THEN LET price_text == Get(product, "price", Str(<<>>))
         IN  IF price_text.t = "None" THEN Raise("AttributeError")
             ELSE LET price_match ==
                          SearchNumber(RemoveCommas(price_text.v), Digits \cup {","})
                  IN  IF price_match.found
                      THEN Keep(PriceInBounds(Float(price_match), criteria))
                      ELSE Keep(FALSE)
    ELSE Keep(TRUE)

\* the rating block; re.search(pattern, None) raises TypeError
RatingCheck(product, criteria) ==
    IF "min_rating" \in DOMAIN criteria
    THEN LET rating_text == Get(product, "rating", Str(<<>>))
         IN  IF rating_text.t = "None" THEN Raise("TypeError")
             ELSE LET rating_match == SearchNumber(rating_text.v, Digits)
                  IN  IF rating_match.found
                      THEN Keep(~ Less(Float(rating_match), criteria["min_rating"]))
                      ELSE Keep(FALSE)
    ELSE Keep(TRUE)

\* sub in s
Contains(s, sub) ==
    \E i \in 1..(Len(s) - Len(sub) + 1) : SubSeq(s, i, i + Len(sub) - 1) = sub

OutOfStock == <<"o", "u", "t", " ", "o", "f", " ", "s", "t", "o", "c", "k">>
Unavailable == <<"u", "n", "a", "v", "a", "i", "l", "a", "b", "l", "e">>

\* the availability block; None.lower raises AttributeError
AvailabilityCheck(product, criteria) ==
    IF "available_only" \in DOMAIN criteria /\ criteria["available_only"]
    THEN LET availability == Get(product, "availability", Str(<<>>))
         IN  IF availability.t = "None" THEN Raise("AttributeError")
             ELSE Keep(~ (Contains(Lower(availability.v), OutOfStock)
                          \/ Contains(Lower(availability.v), Unavailable)))
    ELSE Keep(TRUE)

\* one iteration of the loop of filter_by_criteria: the three blocks run in
\* order whatever matches_criteria already is, the first exception ends it
MatchesCriteria(product, criteria) ==
    LET p == PriceCheck(product, criteria)
        r == RatingCheck(product, criteria)
        a == AvailabilityCheck(product, criteria)
    IN  IF p.t = "raise" THEN p
        ELSE IF r.t = "raise" THEN r
        ELSE IF a.t = "raise" THEN a
        ELSE Keep(p.keep /\ r.keep /\ a.keep)

RECURSIVE FilterLoop(_, _, _, _)
FilterLoop(prods, criteria, i, filtered) ==
    IF i > Len(prods) THEN List(filtered)
    ELSE LET m == MatchesCriteria(prods[i], criteria)
         IN  IF m.t = "raise" THEN m
             ELSE FilterLoop(prods, criteria, i + 1,
                             IF m.keep THEN Append(filtered, prods[i])
                             ELSE filtered)

\* SimpleRAG.filter_by_criteria
FilterByCriteria(prods, criteria) == FilterLoop(prods, criteria, 1, <<>>)

(* ---------------------------- sample data ----------------------------- *)
TxtWidget == <<"W", "i", "d", "g", "e", "t">>
TxtGadget == <<"G", "a", "d", "g", "e", "t">>
TxtPrice10 == <<"$", "1", "0", ".", "0", "0">>
TxtPrice50 == <<"$", "5", "0", ".", "0", "0">>
TxtRating45 == <<"4", ".", "5", " ", "o", "u", "t", " ", "o", "f", " ", "5">>
TxtRating30 == <<"3", ".", "0", " ", "o", "u", "t", " ", "o", "f", " ", "5">>
TxtInStock == <<"I", "n", " ", "S", "t", "o", "c", "k">>
TxtOutOfStock == <<"O", "u", "t", " ", "o", "f", " ", "S", "t", "o", "c", "k">>
TxtRedRedTv == <<"R", "e", "d", " ", "r", "e", "d", " ", "T", "V">>
TxtRed == <<"r", "e", "d">>
TxtPrice1200 == <<"1", ",", "2", "0", "0", ".", "5">>
TxtCall == <<"c", "a", "l", "l">>
TxtNew == <<"n", "e", "w">>
TxtUnavailable == <<"U", "n", "a", "v", "a", "i", "l", "a", "b", "l", "e">>
QOutOfStock == <<"O", "u", "t", " ", "o", "f", " ", "s", "t", "o", "c", "k">>
QRedRed == <<"r", "e", "d", " ", "r", "e", "d">>
QZebra == <<"z", "e", "b", "r", "a">>
QWidgetWidgetOut == <<"W", "i", "d", "g", "e", "t", " ", "w", "i", "d", "g", "e", "t", " ", "o", "u", "t">>
QCheapWidget == <<"c", "h", "e", "a", "p", " ", "W", "i", "d", "g", "e", "t">>

\* the two records of the worked examples
Widget ==
    [name |-> Str(TxtWidget), price |-> Str(TxtPrice10),
     rating |-> Str(TxtRating45), availability |-> Str(TxtInStock)]
Gadget ==
    [name |-> Str(TxtGadget), price |-> Str(TxtPrice50),
     rating |-> Str(TxtRating30), availability |-> Str(TxtOutOfStock)]
\* a record that repeats a word, has a thousands separator, and lacks keys
RedTv ==
    [name |-> Str(TxtRedRedTv), description |-> Str(TxtRed),
     price |-> Str(TxtPrice1200)]
\* a record as extract_product_info builds it when only the name was found:
\* clean_text(None) is None, so the other four keys are present and None
Scraped ==
    [name |-> Str(TxtWidget), price |-> None, rating |-> None,
     description |-> None, availability |-> None]
\* a record without name and description whose price and rating hold no
\* number
Vague ==
    [price |-> Str(TxtCall), rating |-> Str(TxtNew),
     availability |-> Str(TxtUnavailable)]

SampleRecords == {Widget, Gadget, RedTv, Scraped, Vague}

\* every record collection of at most n sample records
Collections(n) == UNION {[1..m -> SampleRecords] : m \in 0..n}

Queries ==
    {QOutOfStock, QRedRed, QZebra, QCheapWidget, QWidgetWidgetOut, <<>>}
TopKs == 0..MaxK

\* criteria: each bound absent or set to one of two values, available_only
\* absent or on, and available_only off alone and beside a bound
NoCriteria == [k \in {} |-> 0]
Opt(key, values) == {NoCriteria} \cup {key :> v : v \in values}
AllCriteria ==
    {a @@ b @@ c @@ d :
        a \in Opt("min_price", {20, 60}), b \in Opt("max_price", {30, 100}),
        c \in Opt("min_rating", {3, 4}), d \in Opt("available_only", {TRUE})}
    \cup {a @@ ("available_only" :> FALSE) : a \in Opt("min_price", {20})}

(* ------------------------------- state -------------------------------- *)
VARIABLES
    products,   \* self.products: the record collection the SimpleRAG holds
    keywords,   \* self.keywords: the inverted index built by __init__
    op,         \* the last call and its arguments
    result,     \* what the last call returned or raised
    selected,   \* the (position, score) pairs the last retrieval went through
    saved,            \* the products in data/scraped.json, or no file
    scraping_status,  \* st.session_state.scraping_status ("none" for None)
    query_history     \* st.session_state.query_history, the queries answered

vars ==
    <<products, keywords, op, result, selected,
      saved, scraping_status, query_history>>

\* the state of the application around the retrieval core
appVars == <<saved, scraping_status, query_history>>

NoFile == [t |-> "none"]

\* the session state app.py sets up, and no data file
AppStart ==
    /\ saved = NoFile
    /\ scraping_status = "none"
    /\ query_history = <<>>

\* SimpleRAG.__init__ over any collection
Init ==
    /\ products \in Collections(MaxRecords)
    /\ keywords = ExtractKeywords(products)
    /\ op = [name |-> "init"]
    /\ result = NoResult
    /\ selected = <<>>
    /\ AppStart

\* rag.retrieve_relevant_products(query, top_k)
Retrieve(query, top_k) ==
    \E r \in {RetrieveRelevantProducts(products, keywords, query, top_k)} :
        /\ products' = r.prods
        /\ result' = r.result
        /\ selected' = r.selected
        /\ op' = [name |-> "retrieve", query |-> query, top_k |-> top_k]
        /\ UNCHANGED <<keywords, appVars>>

\* rag.filter_by_criteria(criteria)
Filter(criteria) ==
    /\ result' = FilterByCriteria(products, criteria)
    /\ op' = [name |-> "filter", criteria |-> criteria]
    /\ selected' = <<>>
    /\ UNCHANGED <<products, keywords, appVars>>

Next ==
    \/ \E query \in Queries, top_k \in TopKs : Retrieve(query, top_k)
    \/ \E criteria \in AllCriteria : Filter(criteria)

Spec == Init /\ [][Next]_vars

(* ------------------- the held list changed in place ------------------- *)
\* top_k of retrieve_relevant_products when the caller gives none
DefaultTopK == 5

\* __init__ keeps a reference to the caller's list, not a copy: the three
\* actions below are the caller changing that list after construction.
\* products.append(record)
ListAppend(record) ==
    /\ Len(products) < MaxRecords
    /\ products' = Append(products, record)
    /\ op' = [name |-> "append"]
    /\ result' = NoResult
    /\ selected' = <<>>
    /\ UNCHANGED <<keywords, appVars>>

\* del products[i]
ListRemove(i) ==
    /\ i \in 1..Len(products)
    /\ products' = RemoveAt(products, i)
    /\ op' = [name |-> "remove"]
    /\ result' = NoResult
    /\ selected' = <<>>
    /\ UNCHANGED <<keywords, appVars>>

\* products[i] = record
ListReplace(i, record) ==
    /\ i \in 1..Len(products)
    /\ record # products[i]
    /\ products' = [products EXCEPT ![i] = record]
    /\ op' = [name |-> "replace"]
    /\ result' = NoResult
    /\ selected' = <<>>
    /\ UNCHANGED <<keywords, appVars>>

\* simple_retrieve(products, query): a new SimpleRAG over the list as it is
\* now, queried once with the default top_k; the held SimpleRAG is not touched
SimpleRetrieve(query) ==
    \E r \in {RetrieveRelevantProducts(products, ExtractKeywords(products),
                                          query, DefaultTopK)} :
        /\ products' = (IF products = <<>> THEN products ELSE r.prods)
        /\ result' = (IF products = <<>> THEN List(<<>>) ELSE r.result)
        /\ selected' = (IF products = <<>> THEN <<>> ELSE r.selected)
        /\ op' = [name |-> "simple_retrieve", query |-> query,
                  top_k |-> DefaultTopK]
        /\ UNCHANGED <<keywords, appVars>>

NextMut ==
    \/ \E query \in Queries, top_k \in TopKs : Retrieve(query, top_k)
    \/ \E query \in Queries : SimpleRetrieve(query)
    \/ \E record \in SampleRecords : ListAppend(record)
    \/ \E i \in 1..MaxRecords : ListRemove(i)
    \/ \E i \in 1..MaxRecords, record \in SampleRecords : ListReplace(i, record)

\* SimpleRAG.__init__ over a collection that the caller then goes on changing
InitMut ==
    /\ products \in Collections(MaxHeld)
    /\ keywords = ExtractKeywords(products)
    /\ op = [name |-> "init"]
    /\ result = NoResult
    /\ selected = <<>>
    /\ AppStart

SpecMut == InitMut /\ [][NextMut]_vars

(* ======================= properties of the core ======================= *)
HasScore(p) == "relevance_score" \in DOMAIN p
StripScore(p) == [f \in DOMAIN p \ {"relevance_score"} |-> p[f]]
Min(a, b) == IF a <= b THEN a ELSE b
Range(s) == {s[j] : j \in DOMAIN s}
Retrieved == op.name = "retrieve"
Filtered == op.name = "filter"
\* the tokens of the last query
QueryWords == Words(Lower(op.query))

\* C1: retrieve_relevant_products returns a list of at most
\* min(top_k, |R|) records, on the scored path and on the fallback path.
C1_LengthBound ==
    Retrieved =>
        /\ result.t = "list"
        /\ Len(result.v) <= Min(op.top_k, Len(products))

\* a scored retrieval cut short by top_k
C1_Witness ==
    /\ Retrieved
    /\ selected # <<>>
    /\ op.top_k < Len(products)
    /\ result.t = "list"
    /\ Len(result.v) = op.top_k

\* C2: when no token of the query is a key of the index, the result is the
\* first top_k records of the collection in order, none with a
\* relevance_score.
C2_FallbackLaw ==
    (Retrieved /\ \A w \in Range(QueryWords) : w \notin DOMAIN keywords) =>
        /\ result.t = "list"
        /\ Len(result.v) = Min(op.top_k, Len(products))
        /\ \A j \in DOMAIN result.v :
              result.v[j] = products[j] /\ ~ HasScore(result.v[j])

\* a fallback that returns the first of two different records
C2_Witness ==
    /\ Retrieved
    /\ QueryWords # <<>>
    /\ \A w \in Range(QueryWords) : w \notin DOMAIN keywords
    /\ Len(products) = 2
    /\ products[1] # products[2]
    /\ result = List(<<products[1]>>)

\* w is a piece of one of the five text fields of p, lower-cased
OccursInRecord(w, p) ==
    \E j \in DOMAIN TextFieldNames :
        /\ TextFieldNames[j] \in DOMAIN p
        /\ p[TextFieldNames[j]].t = "str"
        /\ Contains(Lower(p[TextFieldNames[j]].v), w)

\* C3: every position in a postings list is a position of the collection,
\* every indexed token is longer than 2 characters, and a position is listed
\* under a token only if the token occurs in a text field of that record.
C3_IndexWellFormed ==
    \A w \in DOMAIN keywords :
        /\ Len(w) > 2
        /\ \A j \in DOMAIN keywords[w] :
              /\ keywords[w][j] \in 0..(Len(products) - 1)
              /\ OccursInRecord(w, products[keywords[w][j] + 1])

\* an index over two records with a token that both records contain, built
\* from text that also holds words of one and two characters
C3_Witness ==
    /\ Len(products) = 2
    /\ \E w \in DOMAIN keywords : Range(keywords[w]) = {0, 1}
    /\ \E j \in DOMAIN products :
          \E x \in Range(Words(CombinedText(products[j]))) : Len(x) <= 2

\* how many entries of sequence s equal x
Occurrences(x, s) == Cardinality({j \in DOMAIN s : s[j] = x})

\* the query tokens whose postings list holds position idx
MatchedTokens(idx) ==
    {w \in Range(QueryWords) : w \in DOMAIN keywords /\ idx \in Range(keywords[w])}

\* the score written on the j-th returned record
ScoreOf(j) == result.v[j]["relevance_score"].n

ScoredPath == Retrieved /\ result.t = "list" /\ selected # <<>>

\* C4 as stated: a returned score is never higher than the number of
\* distinct query tokens that matched the record.
C4_ScoreAtMostDistinct ==
    ScoredPath =>
        \A j \in DOMAIN result.v :
            ScoreOf(j) <= Cardinality(MatchedTokens(selected[j].idx))

\* a matched token that the query or the text of record idx holds twice
RepeatsMatched(idx) ==
    \E w \in MatchedTokens(idx) :
        \/ Occurrences(w, QueryWords) > 1
        \/ Occurrences(w, Words(CombinedText(products[idx + 1]))) > 1

\* C4 amended: a returned score is never lower than the number of distinct
\* query tokens that matched the record, and it is higher than that number
\* exactly when the query or the record's text repeats a matched token.
C4_ScoreVersusDistinct ==
    ScoredPath =>
        \A j \in DOMAIN result.v :
            LET d == Cardinality(MatchedTokens(selected[j].idx))
            IN  /\ ScoreOf(j) >= d
                /\ (ScoreOf(j) > d) <=> RepeatsMatched(selected[j].idx)

\* a record returned with a score above its number of distinct matches,
\* and one returned with a score equal to it
C4_Witness ==
    /\ ScoredPath
    /\ \E j \in DOMAIN result.v :
          ScoreOf(j) > Cardinality(MatchedTokens(selected[j].idx))
    /\ \E j \in DOMAIN result.v :
          ScoreOf(j) = Cardinality(MatchedTokens(selected[j].idx))

RECURSIVE IsSubsequence(_, _)
\* a is b with some entries left out
IsSubsequence(a, b) ==
    IF a = <<>> THEN TRUE
    ELSE IF b = <<>> THEN FALSE
    ELSE IF Head(a) = Head(b) THEN IsSubsequence(Tail(a), Tail(b))
    ELSE IsSubsequence(a, Tail(b))

\* bound key of c2 is at least as tight as in c1
TightensKey(c1, c2, key) ==
    CASE key = "min_price" ->
            /\ key \in DOMAIN c2
            /\ key \in DOMAIN c1 => c2[key] > c1[key]
      [] key = "min_rating" ->
            /\ key \in DOMAIN c2
            /\ key \in DOMAIN c1 => c2[key] > c1[key]
      [] key = "max_price" ->
            /\ key \in DOMAIN c2
            /\ key \in DOMAIN c1 => c2[key] < c1[key]
      [] key = "available_only" ->
            /\ key \in DOMAIN c2 /\ c2[key]
            /\ key \in DOMAIN c1 => ~ c1[key]

CriteriaKeys == {"min_price", "max_price", "min_rating", "available_only"}

\* c2 is c1 with exactly one bound tightened
Tightens(c1, c2) ==
    \E key \in CriteriaKeys :
        /\ TightensKey(c1, c2, key)
        /\ \A other \in CriteriaKeys \ {key} :
              /\ (other \in DOMAIN c1) <=> (other \in DOMAIN c2)
              /\ other \in DOMAIN c1 => c1[other] = c2[other]

HasText(p, key) == key \in DOMAIN p /\ p[key].t = "str"

\* the constraints of the criteria as the specification words them, a
\* missing or null field being a field without value
PassesPrice(p, c) ==
    ("min_price" \in DOMAIN c \/ "max_price" \in DOMAIN c) =>
        /\ HasText(p, "price")
        /\ LET m == SearchNumber(RemoveCommas(p["price"].v), Digits)
           IN  /\ m.found
               /\ "min_price" \in DOMAIN c => ~ Less(Float(m), c["min_price"])
               /\ "max_price" \in DOMAIN c => ~ Greater(Float(m), c["max_price"])

PassesRating(p, c) ==
    "min_rating" \in DOMAIN c =>
        /\ HasText(p, "rating")
        /\ LET m == SearchNumber(p["rating"].v, Digits)
           IN  m.found /\ ~ Less(Float(m), c["min_rating"])

PassesAvailability(p, c) ==
    ("available_only" \in DOMAIN c /\ c["available_only"] /\ HasText(p, "availability")) =>
        /\ ~ Contains(Lower(p["availability"].v), OutOfStock)
        /\ ~ Contains(Lower(p["availability"].v), Unavailable)

Passes(p, c) == PassesPrice(p, c) /\ PassesRating(p, c) /\ PassesAvailability(p, c)

\* C6: filter_by_criteria returns exactly the records that pass every
\* configured constraint, in their original order.
C6_FilterExact ==
    Filtered =>
        /\ result.t = "list"
        /\ result.v = SelectSeq(products, LAMBDA p : Passes(p, op.criteria))
        /\ Len(result.v) <= Len(products)

\* C7: no call raises; a record without a price or rating is left out
\* by a bound on it, and a record without availability text passes
\* available_only.
C7_NeverRaises ==
    /\ op.name \in {"retrieve", "filter"} => result.t = "list"
    /\ Filtered =>
          \A j \in DOMAIN products :
              LET p == products[j]
                  c == op.criteria
              IN  /\ (~ HasText(p, "price")
                        /\ ("min_price" \in DOMAIN c \/ "max_price" \in DOMAIN c))
                     => p \notin Range(result.v)
                  /\ (~ HasText(p, "rating") /\ "min_rating" \in DOMAIN c)
                     => p \notin Range(result.v)
                  /\ (~ HasText(p, "availability") /\ DOMAIN c = {"available_only"})
                     => p \in Range(result.v)

\* C8: a retrieval leaves the collection and each of its records as they
\* were, and no record of the collection has a relevance_score.
C8_RetrieveLeavesRecords ==
    [][op'.name = "retrieve" =>
          /\ products' = products
          /\ \A j \in DOMAIN products' : ~ HasScore(products'[j])]_vars

\* a retrieval that returned scored copies of records of the collection
C8_Witness ==
    /\ ScoredPath
    /\ Len(result.v) = 2
    /\ \A j \in DOMAIN result.v :
          /\ HasScore(result.v[j])
          /\ StripScore(result.v[j]) = products[selected[j].idx + 1]
          /\ ~ HasScore(products[selected[j].idx + 1])

\* C9: a query is scored against an index of the collection as it is when
\* the query runs, so it returns what a newly built index gives and never
\* fails on a position.
C9_IndexCurrent ==
    op.name \in {"retrieve", "simple_retrieve"} =>
        /\ result.t = "list"
        /\ result = RetrieveRelevantProducts(products, ExtractKeywords(products),
                                             op.query, op.top_k).result

RECURSIVE SumOver(_, _)
\* the sum of f[w] over the entries w of sequence s
SumOver(s, f) == IF s = <<>> THEN 0 ELSE f[Head(s)] + SumOver(Tail(s), f)

\* how often the postings list of each query token holds position idx
PostingCount(idx) ==
    [w \in Range(QueryWords) |->
        IF w \in DOMAIN keywords THEN Occurrences(idx, keywords[w]) ELSE 0]

\* C10: on the scored path each returned record is the record at its
\* position with a relevance_score that is an integer >= 1 and the sum, over
\* the query tokens in order, of the times the token's postings list holds
\* that position.
C10_ScoreIsPostingSum ==
    ScoredPath =>
        /\ Len(result.v) = Len(selected)
        /\ \A j \in DOMAIN result.v :
              /\ HasScore(result.v[j])
              /\ result.v[j]["relevance_score"].t = "int"
              /\ ScoreOf(j) >= 1
              /\ ScoreOf(j) = SumOver(QueryWords, PostingCount(selected[j].idx))
              /\ StripScore(result.v[j]) = products[selected[j].idx + 1]

\* a score of 3 or more, which takes a repeated query token or posting
C10_Witness ==
    /\ ScoredPath
    /\ \E j \in DOMAIN result.v : ScoreOf(j) >= 3
    /\ \E w \in Range(QueryWords) : Occurrences(w, QueryWords) > 1

RECURSIVE FlatPostings(_)
\* the postings lists of the tokens of words that are index keys, one after
\* the other: the positions in the order the scoring loop visits them
FlatPostings(words) ==
    IF words = <<>> THEN <<>>
    ELSE (IF Head(words) \in DOMAIN keywords THEN keywords[Head(words)] ELSE <<>>)
         \o FlatPostings(Tail(words))

Visits == FlatPostings(QueryWords)

\* when a scan in the order visits first reaches position idx
FirstSeenIn(visits, idx) ==
    CHOOSE j \in DOMAIN visits :
        visits[j] = idx /\ \A k \in 1..(j - 1) : visits[k] # idx
FirstSeen(idx) == FirstSeenIn(Visits, idx)

\* position a comes before position b: a higher score, or the same score
\* and reached earlier
RanksBeforeIn(visits, a, b) ==
    \/ Occurrences(a, visits) > Occurrences(b, visits)
    \/ /\ Occurrences(a, visits) = Occurrences(b, visits)
       /\ FirstSeenIn(visits, a) < FirstSeenIn(visits, b)

\* the returned list is the first top_k of the positions of visits, ranked
RankedPrefix(visits, top_k) ==
    /\ Len(result.v) = Min(top_k, Cardinality(Range(visits)))
    /\ Len(selected) = Len(result.v)
    /\ \A j \in DOMAIN result.v :
          /\ selected[j].idx \in Range(visits)
          /\ StripScore(result.v[j]) = products[selected[j].idx + 1]
          /\ \A k \in DOMAIN result.v :
                j < k =>
                    /\ ScoreOf(j) >= ScoreOf(k)
                    /\ ScoreOf(j) = ScoreOf(k) =>
                          FirstSeenIn(visits, selected[j].idx)
                              < FirstSeenIn(visits, selected[k].idx)
          /\ \A idx \in Range(visits) \ {selected[k].idx : k \in DOMAIN selected} :
                RanksBeforeIn(visits, selected[j].idx, idx)

\* C11: the scored output is in order of non-increasing relevance_score,
\* equal scores in the order their positions were first reached by the scan
\* of the query tokens and their postings lists, and it is the first top_k
\* of the matched positions in that order.
C11_RankedOutput == ScoredPath => RankedPrefix(Visits, op.top_k)

\* two positions with equal scores, the later position reached first, and
\* top_k = 1 keeping only that one
C11_Witness ==
    /\ ScoredPath
    /\ Len(result.v) = 1
    /\ selected[1].idx = 1
    /\ 0 \in Range(Visits)
    /\ Occurrences(0, Visits) = Occurrences(1, Visits)
    /\ FirstSeen(1) < FirstSeen(0)

\* the text of field key of p, empty when the record has none
TextOf(p, key) == IF HasText(p, key) THEN p[key].v ELSE <<>>

\* the text holds no number: it has no digit
NoNumber(text) == \A i \in DOMAIN text : text[i] \notin Digits

PriceBound(c) == "min_price" \in DOMAIN c \/ "max_price" \in DOMAIN c
RatingBound(c) == "min_rating" \in DOMAIN c

\* C12: a record whose price text holds no number is left out whenever a
\* price bound is set, one whose rating text holds no number whenever
\* min_rating is set; without the bound such a text never leaves a record
\* out; and min_price > max_price gives the empty list, not an error.
C12_ConservativeExclusion ==
    Filtered =>
        LET c == op.criteria
        IN  /\ ("min_price" \in DOMAIN c /\ "max_price" \in DOMAIN c
                    /\ c["min_price"] > c["max_price"])
               => result = List(<<>>)
            /\ \A j \in DOMAIN products :
                  LET p == products[j]
                  IN  /\ (PriceBound(c) /\ NoNumber(TextOf(p, "price")))
                         => (result.t = "list" /\ p \notin Range(result.v))
                      /\ (RatingBound(c) /\ NoNumber(TextOf(p, "rating")))
                         => (result.t = "list" /\ p \notin Range(result.v))
                      /\ (~ PriceBound(c) /\ NoNumber(TextOf(p, "price"))
                              /\ result.t = "list")
                         => (p \in Range(result.v)
                               <=> PassesRating(p, c) /\ PassesAvailability(p, c))
                      /\ (~ RatingBound(c) /\ NoNumber(TextOf(p, "rating"))
                              /\ result.t = "list")
                         => (p \in Range(result.v)
                               <=> PassesPrice(p, c) /\ PassesAvailability(p, c))

(* --------------------------- intent analyzer -------------------------- *)
\* the phrase lists of analyze_query_intent
CheapPhrases ==
    <<<<"c", "h", "e", "a", "p">>,
      <<"c", "h", "e", "a", "p", "e", "s", "t">>,
      <<"l", "o", "w", "e", "s", "t", " ", "p", "r", "i", "c", "e">>,
      <<"b", "u", "d", "g", "e", "t">>>>
ExpensivePhrases ==
    <<<<"e", "x", "p", "e", "n", "s", "i", "v", "e">>,
      <<"h", "i", "g", "h", "e", "s", "t", " ", "p", "r", "i", "c", "e">>,
      <<"p", "r", "e", "m", "i", "u", "m">>>>
BestPhrases ==
    <<<<"b", "e", "s", "t">>,
      <<"h", "i", "g", "h", "e", "s", "t", " ", "r", "a", "t", "e", "d">>,
      <<"t", "o", "p", " ", "r", "a", "t", "e", "d">>,
      <<"b", "e", "s", "t", " ", "r", "a", "t", "i", "n", "g">>>>
WorstPhrases ==
    <<<<"w", "o", "r", "s", "t">>,
      <<"l", "o", "w", "e", "s", "t", " ", "r", "a", "t", "e", "d">>,
      <<"p", "o", "o", "r", " ", "r", "a", "t", "i", "n", "g">>>>
AvailablePhrases ==
    <<<<"a", "v", "a", "i", "l", "a", "b", "l", "e">>,
      <<"i", "n", " ", "s", "t", "o", "c", "k">>,
      <<"b", "u", "y", " ", "n", "o", "w">>>>
TxtUnder == <<"u", "n", "d", "e", "r", " ">>
TxtOver == <<"o", "v", "e", "r", " ">>

\* any(word in query_lower for word in phrases)
AnyIn(phrases, query_lower) ==
    \E j \in DOMAIN phrases : Contains(query_lower, phrases[j])

\* the two if/elif pairs that set intent['sort_by'], the rating pair after
\* the price pair; "" when no pair sets it
SortByPriceLast(query_lower) ==
    LET rating == IF AnyIn(BestPhrases, query_lower) THEN "rating_desc"
                  ELSE IF AnyIn(WorstPhrases, query_lower) THEN "rating_asc"
                  ELSE ""
    IN  IF AnyIn(CheapPhrases, query_lower) THEN "price_asc"
        ELSE IF AnyIn(ExpensivePhrases, query_lower) THEN "price_desc"
        ELSE rating
SortBy(query_lower) ==
    LET price == IF AnyIn(CheapPhrases, query_lower) THEN "price_asc"
                 ELSE IF AnyIn(ExpensivePhrases, query_lower) THEN "price_desc"
                 ELSE ""
    IN  IF AnyIn(BestPhrases, query_lower) THEN "rating_desc"
        ELSE IF AnyIn(WorstPhrases, query_lower) THEN "rating_asc"
        ELSE price

\* a match of word \$?(\d+) begins at i
AmountAt(s, word, i) ==
    /\ i + Len(word) - 1 <= Len(s)
    /\ SubSeq(s, i, i + Len(word) - 1) = word
    /\ LET d == IF i + Len(word) <= Len(s) /\ s[i + Len(word)] = "$"
                THEN i + Len(word) + 1 ELSE i + Len(word)
       IN  d <= Len(s) /\ s[d] \in Digits

\* re.search(word \$?(\d+), s): group 1 of the leftmost match
SearchAmount(s, word) ==
    IF \E i \in 1..Len(s) : AmountAt(s, word, i)
    THEN LET i == CHOOSE i \in 1..Len(s) :
                      AmountAt(s, word, i)
                      /\ \A k \in 1..(i - 1) : ~ AmountAt(s, word, k)
             d == IF s[i + Len(word)] = "$" THEN i + Len(word) + 1
                  ELSE i + Len(word)
         IN  [found |-> TRUE, group |-> SubSeq(s, d, RunEnd(s, d, Digits))]
    ELSE [found |-> FALSE]

\* analyze_query_intent: the intent dict, float(N) kept as the integer N
AnalyzeQueryIntent(query) ==
    LET query_lower == Lower(query)
        sort_by     == SortBy(query_lower)
        under       == SearchAmount(query_lower, TxtUnder)
        over        == SearchAmount(query_lower, TxtOver)
    IN  (IF sort_by # "" THEN "sort_by" :> sort_by ELSE NoCriteria)
        @@ (IF AnyIn(AvailablePhrases, query_lower)
            THEN "available_only" :> TRUE ELSE NoCriteria)
        @@ (IF under.found THEN "max_price" :> DigitsValue(under.group)
            ELSE NoCriteria)
        @@ (IF over.found THEN "min_price" :> DigitsValue(over.group)
            ELSE NoCriteria)

\* a returned dict
Dict(v) == [t |-> "dict", v |-> v]

\* queries put together from a price part, a rating part and a tail
PriceParts ==
    {<<>>,
     <<"c", "h", "e", "a", "p">>,
     <<"C", "h", "e", "a", "p", "e", "s", "t">>,
     <<"l", "o", "w", "e", "s", "t", " ", "p", "r", "i", "c", "e">>,
     <<"b", "u", "d", "g", "e", "t">>,
     <<"e", "x", "p", "e", "n", "s", "i", "v", "e">>,
     <<"h", "i", "g", "h", "e", "s", "t", " ", "p", "r", "i", "c", "e">>,
     <<"p", "r", "e", "m", "i", "u", "m">>}
RatingParts ==
    {<<>>,
     <<"b", "e", "s", "t">>,
     <<"h", "i", "g", "h", "e", "s", "t", " ", "r", "a", "t", "e", "d">>,
     <<"T", "o", "p", " ", "R", "a", "t", "e", "d">>,
     <<"b", "e", "s", "t", " ", "r", "a", "t", "i", "n", "g">>,
     <<"w", "o", "r", "s", "t">>,
     <<"l", "o", "w", "e", "s", "t", " ", "r", "a", "t", "e", "d">>,
     <<"p", "o", "o", "r", " ", "r", "a", "t", "i", "n", "g">>,
     <<"b", "e", "s", "t", "s", "e", "l", "l", "e", "r">>}
TailParts ==
    {<<>>,
     <<"i", "n", " ", "s", "t", "o", "c", "k">>,
     <<"u", "n", "d", "e", "r", " ", "$", "3", "0">>,
     <<"o", "v", "e", "r", " ", "5", " ", "a", "n", "d", " ", "u", "n", "d", "e", "r", " ", "1", "0", "0">>}

Spaced(a, b) == IF a = <<>> THEN b ELSE IF b = <<>> THEN a ELSE a \o <<" ">> \o b

IntentQueries ==
    {Spaced(Spaced(p, r), t) : p \in PriceParts, r \in RatingParts, t \in TailParts}
    \cup {Spaced(Spaced(r, p), t) : p \in PriceParts, r \in RatingParts, t \in TailParts}

\* analyze_query_intent(query)
Analyze(query) ==
    /\ result' = Dict(AnalyzeQueryIntent(query))
    /\ op' = [name |-> "analyze", query |-> query]
    /\ selected' = <<>>
    /\ UNCHANGED <<products, keywords, appVars>>

\* the module with no SimpleRAG built: an empty collection and index
InitIntent ==
    /\ products = <<>>
    /\ keywords = EmptyIndex
    /\ op = [name |-> "init"]
    /\ result = NoResult
    /\ selected = <<>>
    /\ AppStart

NextIntent == \E query \in IntentQueries : Analyze(query)

SpecIntent == InitIntent /\ [][NextIntent]_vars

Analyzed == op.name = "analyze"
HasPricePhrase ==
    AnyIn(CheapPhrases \o ExpensivePhrases, Lower(op.query))
HasRatingPhrase ==
    AnyIn(BestPhrases \o WorstPhrases, Lower(op.query))

\* C13: in the intent, sort_by is a rating value whenever the query holds a
\* rating phrase, also when it holds a price phrase too; it is a price value
\* only when a price phrase and no rating phrase is there; and the key is
\* absent when neither is there.
C13_RatingPrecedence ==
    Analyzed =>
        /\ result.t = "dict"
        /\ HasRatingPhrase =>
              /\ "sort_by" \in DOMAIN result.v
              /\ result.v["sort_by"] \in {"rating_desc", "rating_asc"}
        /\ (HasPricePhrase /\ ~ HasRatingPhrase) =>
              /\ "sort_by" \in DOMAIN result.v
              /\ result.v["sort_by"] \in {"price_asc", "price_desc"}
        /\ (~ HasPricePhrase /\ ~ HasRatingPhrase) =>
              "sort_by" \notin DOMAIN result.v

\* a query with a price phrase and a rating phrase, sorted by rating
C13_Witness ==
    /\ Analyzed
    /\ AnyIn(ExpensivePhrases, Lower(op.query))
    /\ AnyIn(WorstPhrases, Lower(op.query))
    /\ ~ AnyIn(BestPhrases, Lower(op.query))
    /\ result = Dict("sort_by" :> "rating_asc")

(* ---------------------------- application ----------------------------- *)
\* st.slider("Max products to scrape", 5, 50, 20): the lowest setting and
\* the default
SliderMin == 5
SliderDefault == 20

\* data/scraped.json holding a product list
File(v) == [t |-> "file", v |-> v]

\* records as extract_product_info builds them: all five keys, a name, and
\* None where the card had no such element
Card(name, price) ==
    [name |-> Str(name), price |-> price, rating |-> None,
     description |-> None, availability |-> None]
WidgetCard == Card(TxtWidget, Str(TxtPrice10))
RedCard == Card(TxtRed, Str(TxtPrice10))
RedTvCard == Card(TxtRedRedTv, Str(TxtPrice50))

\* what scrape_products(url) can return: nothing, a short page, and a page
\* of more cards than the assistant hands on
PageTwo == <<WidgetCard, Scraped>>
PageSix == <<WidgetCard, RedCard, WidgetCard, RedTvCard, WidgetCard, RedCard>>
ScrapeResults == {<<>>, PageTwo, PageSix}

QRedWidgetUnder5 == <<"r", "e", "d", " ", "w", "i", "d", "g", "e", "t", " ", "u", "n", "d", "e", "r", " ", "$", "5">>
AppQueries == {QRedWidgetUnder5, QZebra, <<>>}

\* simple_retrieve(products, query), as the assistant calls it: index is the
\* keyword index of the SimpleRAG it builds
SimpleRetrieveCall(prods, query) ==
    IF prods = <<>>
    THEN [prods |-> prods, selected |-> <<>>, result |-> List(<<>>),
          index |-> EmptyIndex]
    ELSE LET index == ExtractKeywords(prods)
             r     == RetrieveRelevantProducts(prods, index, query, DefaultTopK)
         IN  [prods |-> r.prods, selected |-> r.selected,
              result |-> r.result, index |-> index]

\* relevant_products or st.session_state.products
OrSession(relevant, session) == IF relevant = <<>> THEN session ELSE relevant

\* the intent narrowing the list before the retrieval, which the code
\* does not do
AskRetrieveFiltered(session, query, intent) ==
    LET f == FilterByCriteria(session, intent)
    IN  IF f.t = "raise"
        THEN [prods |-> session, selected |-> <<>>, result |-> f,
              index |-> EmptyIndex]
        ELSE [SimpleRetrieveCall(f.v, query) EXCEPT !.prods = session]
\* the retrieval of the assistant: the intent is computed and not passed on
AskRetrieve(session, query, intent) == SimpleRetrieveCall(session, query)

\* products[:max_products]
LimitProducts(prods, max_products) == Slice(prods, max_products)

\* the "Load Existing Data" button; load_products_from_json returns [] when
\* the file cannot be read
Load(readable) ==
    /\ products' = (IF saved = NoFile THEN products
                    ELSE IF readable THEN saved.v ELSE <<>>)
    /\ op' = [name |-> "load"]
    /\ result' = NoResult
    /\ selected' = <<>>
    /\ UNCHANGED <<keywords, appVars>>

\* the "Clear All Data" button
Clear ==
    /\ products' = <<>>
    /\ query_history' = <<>>
    /\ saved' = NoFile
    /\ op' = [name |-> "clear"]
    /\ result' = NoResult
    /\ selected' = <<>>
    /\ UNCHANGED <<keywords, scraping_status>>

\* how the "Scrape Products" handler ends
ScrapeOutcome(api_key, scraped) ==
    IF ~ api_key THEN "no_api_key"
    ELSE IF scraped.t = "raise" THEN "error"
    ELSE IF scraped.v = <<>> THEN "no_products"
    ELSE "success"

\* the "Scrape Products" button: scraped is what scrape_products(url) did,
\* written whether save_products_to_json could write the file
Scrape(api_key, scraped, max_products, written) ==
    LET outcome == ScrapeOutcome(api_key, scraped)
        limited == IF outcome = "success"
                   THEN LimitProducts(scraped.v, max_products) ELSE <<>>
    IN  /\ products' = (IF outcome = "success" THEN limited ELSE products)
        /\ saved' = (IF outcome = "success" /\ written THEN File(limited)
                     ELSE saved)
        /\ scraping_status' = (IF outcome = "no_api_key" THEN scraping_status
                               ELSE outcome)
        /\ op' = [name |-> "scrape", outcome |-> outcome]
        /\ result' = NoResult
        /\ selected' = <<>>
        /\ UNCHANGED <<keywords, query_history>>

\* the "Ask Assistant" button, shown while the session holds products:
\* result is the list handed to format_products_for_context when query_llm
\* is called, keywords the index of the SimpleRAG simple_retrieve built;
\* answered tells whether query_llm returned, and then the history grows
Ask(query, api_key, answered) ==
    \E intent \in {AnalyzeQueryIntent(query)} :
    \E r \in {AskRetrieve(products, query, intent)} :
    \E reached \in {api_key /\ r.result.t = "list"} :
        /\ products # <<>>
        /\ query # <<>>
        /\ (reached /\ answered) => Len(query_history) < MaxHistory
        /\ op' = [name |-> "ask", query |-> query, top_k |-> DefaultTopK,
                  intent |-> intent, llm |-> reached]
        /\ products' = (IF api_key THEN r.prods ELSE products)
        /\ keywords' = (IF api_key THEN r.index ELSE keywords)
        /\ selected' = (IF api_key THEN r.selected ELSE <<>>)
        /\ result' = (IF reached THEN List(OrSession(r.result.v, r.prods))
                      ELSE IF api_key THEN r.result ELSE NoResult)
        /\ query_history' = (IF reached /\ answered
                             THEN Append(query_history, query)
                             ELSE query_history)
        /\ UNCHANGED <<saved, scraping_status>>

NextApp ==
    \/ \E readable \in BOOLEAN : Load(readable)
    \/ Clear
    \/ \E api_key \in BOOLEAN, max_products \in {SliderMin, SliderDefault},
          scraped \in {Raise("Exception")} \cup {List(p) : p \in ScrapeResults},
          written \in BOOLEAN :
          Scrape(api_key, scraped, max_products, written)
    \/ \E query \in AppQueries, api_key \in BOOLEAN, answered \in BOOLEAN :
          Ask(query, api_key, answered)

\* a fresh session; the data file of an earlier session may be there
InitApp ==
    /\ products = <<>>
    /\ keywords = EmptyIndex
    /\ op = [name |-> "init"]
    /\ result = NoResult
    /\ selected = <<>>
    /\ saved \in {NoFile, File(PageTwo), File(PageSix)}
    /\ scraping_status = "none"
    /\ query_history = <<>>

SpecApp == InitApp /\ [][NextApp]_vars

\* an Ask that went as far as the query_llm call
AskedLlm == op.name = "ask" /\ op.llm

\* the list handed on: scored copies of the first five matched session
\* records in rank order, or the head of the session list when nothing
\* matched
HandedOn(visits) ==
    /\ result.t = "list"
    /\ result.v # <<>>
    /\ Len(result.v) <= 5
    /\ \A j \in DOMAIN result.v :
          \E i \in DOMAIN products : StripScore(result.v[j]) = products[i]
    /\ IF visits = <<>>
       THEN result.v = SubSeq(products, 1, Min(5, Len(products)))
       ELSE /\ RankedPrefix(visits, 5)
            /\ \A j \in DOMAIN result.v :
                  result.v[j] =
                      WithScore(products[selected[j].idx + 1],
                                Occurrences(selected[j].idx, visits))

ContextFromSession == AskedLlm => HandedOn(Visits)

\* a scrape that did not end in success
ScrapeFailed == op.name = "scrape" /\ op.outcome # "success"

\* C14: every Ask that reaches the text-generation call hands on a non-empty
\* list of at most 5 records, each a (scored copy of a) record of the
\* current session list, picked by the query alone whatever the intent
\* says; a scrape that finds nothing or raises leaves the session list as
\* it was.
C14_AskContext ==
    /\ []ContextFromSession
    /\ [][ScrapeFailed' => products' = products]_vars

\* an Ask over more than 5 session records handed five of them on, not the
\* first five, and the intent's price limit would have kept none of them
C14_Witness ==
    /\ AskedLlm
    /\ Len(products) > 5
    /\ Len(result.v) = 5
    /\ StripScore(result.v[1]) # products[1]
    /\ "max_price" \in DOMAIN op.intent
    /\ \A j \in DOMAIN result.v :
          MatchesCriteria(StripScore(result.v[j]), op.intent) = Keep(FALSE)

====
